---- MODULE Spec2Model ----
(***************************************************************************)
(* Server side of the SSH2 transport handshake of libssh (src/server.c):   *)
(* banner reception, the connection state machine, the server DH reply     *)
(* and the key-exchange driver loop.                                       *)
(*                                                                         *)
(* The session is one record; every handler of server.c is an operator     *)
(* from a session (and the outcomes of the library calls it makes) to the  *)
(* session it leaves behind, and an action applies it.  Library functions  *)
(* that live outside server.c (packet_send, make_sessionid, the KEXINIT    *)
(* and NEWKEYS handlers, banner analysis, negotiation) are modelled from   *)
(* their documented behaviour.                                             *)
(***************************************************************************)
EXTENDS Integers, Sequences, FiniteSets, TLC

VARIABLES session,   \* struct ssh_session_struct, the fields server.c uses
          inbuf,     \* socket input buffer handed to the data callback
          pending,   \* bytes the peer has sent that have not arrived yet
          stream0,   \* the peer's whole byte stream (history)
          pc,        \* position of ssh_handle_key_exchange
          rc,        \* its return value
          with_ssh1, \* whether the build defines WITH_SSH1
          npkts,     \* packets dispatched so far
          last,      \* the handler that ran last and what it returned
          sshbind,   \* struct ssh_bind_struct, the listener
          os,        \* the sockets of the process and the connections waiting
          queue,     \* session->ssh_message_list
          mlog       \* what the last step did to messages, in order, when it
                     \* was ssh_execute_message_callbacks

vars == <<session, inbuf, pending, stream0, pc, rc, with_ssh1, npkts, last,
          sshbind, os, queue, mlog>>

(* The message queue, which the handshake and the listener leave alone *)
msgvars == <<queue, mlog>>

(* The listener and the operating system, which the handshake leaves alone *)
bindvars == <<sshbind, os>>

----------------------------------------------------------------------------
(* Bounds of the model *)

MaxPackets == 4    \* packets the peer sends after its banner
DhP == 3           \* modulus of the (toy) DH group
MaxY == 2          \* largest secret exponent dh_generate_y draws
MaxFill == 2       \* filler bytes of a short banner
NearBound == 3     \* banner lengths explored on each side of the limit
MaxPrefs == 1      \* slots with an operator preference (or all of them)
MaxBacklog == 1    \* connections waiting on the listening socket
MaxMsgs == 2       \* messages the peer sends after the handshake

(* Program constants *)

BannerMaxIndex == 127   \* "if (i > 127)" in callback_receive_banner

----------------------------------------------------------------------------
(* Bytes.  A byte is a one-character string; NUL stands for '\0'. *)

CR == "\r"
LF == "\n"
NUL == "NUL"

Str(n, c) == [i \in 1..n |-> c]

Ssh20 == <<"S", "S", "H", "-", "2", ".", "0", "-">>
Ssh199 == <<"S", "S", "H", "-", "1", ".", "9", "9", "-">>
Ssh15 == <<"S", "S", "H", "-", "1", ".", "5", "-">>
Junk == <<"H", "T", "T", "P", "/", "1", ".", "1">>

IsPrefix(p, s) == Len(p) <= Len(s) /\ SubSeq(s, 1, Len(p)) = p

Min(S) == CHOOSE i \in S : \A j \in S : i <= j

(* strdup(buffer): the bytes before the first '\0' *)
StrDup(buf) ==
  LET nuls == {i \in 1..Len(buf) : buf[i] = NUL}
  IN IF nuls = {} THEN buf ELSE SubSeq(buf, 1, Min(nuls) - 1)

(* Mutant: the count returned is the index of the '\n', not one past it *)
BannerScan_RetIndex(buf) ==
  LET exits == {i \in 0..(Len(buf) - 1) : buf[i + 1] = LF \/ i > BannerMaxIndex}
      stop == IF exits = {} THEN Len(buf) - 1 ELSE Min(exits)
      wrote == [j \in 1..Len(buf) |->
                  IF j <= stop + 1 /\ buf[j] = CR THEN NUL ELSE buf[j]]
  IN IF exits = {}
     THEN [ret |-> 0, ev |-> "incomplete", str |-> <<>>, buf |-> wrote]
     ELSE IF buf[stop + 1] = LF
          THEN LET b2 == [wrote EXCEPT ![stop + 1] = NUL]
               IN [ret |-> stop, ev |-> "banner", str |-> StrDup(b2),
                   buf |-> b2]
          ELSE [ret |-> 0, ev |-> "too_large", str |-> <<>>, buf |-> wrote]

(* The loop of callback_receive_banner, lines 559-596, over buf[0..len-1].  *)
(* It leaves at the first C index i that holds '\n' (line 573) or, '\n'     *)
(* checked first, is above BannerMaxIndex (line 588); with no such index it *)
(* runs to the end.  Every '\r' up to where it stopped is '\0' by then      *)
(* (line 569), and so is the '\n' that ended a banner (line 574).           *)
BannerScan(buf) ==
  LET exits == {i \in 0..(Len(buf) - 1) : buf[i + 1] = LF \/ i > BannerMaxIndex}
      stop == IF exits = {} THEN Len(buf) - 1 ELSE Min(exits)
      wrote == [j \in 1..Len(buf) |->
                  IF j <= stop + 1 /\ buf[j] = CR THEN NUL ELSE buf[j]]
  IN IF exits = {}
     THEN [ret |-> 0, ev |-> "incomplete", str |-> <<>>, buf |-> wrote]
     ELSE IF buf[stop + 1] = LF
          THEN LET b2 == [wrote EXCEPT ![stop + 1] = NUL]
               IN [ret |-> stop + 1, ev |-> "banner", str |-> StrDup(b2),
                   buf |-> b2]
          ELSE [ret |-> 0, ev |-> "too_large", str |-> <<>>, buf |-> wrote]

----------------------------------------------------------------------------
(* The session *)

SessionStates == {"None", "Connecting", "SocketConnected", "BannerReceived",
                  "InitialKex", "KexinitReceived", "Dh", "Authenticating",
                  "Error", "Disconnected"}
DhStates == {"Init", "InitSent", "NewkeysSent", "Finished"}

(* The states in which the loop of ssh_handle_key_exchange stops *)
DriverStop == {"Error", "Authenticating", "Disconnected"}

(* A crypto context; CryptoNull is the NULL pointer, crypto_new() a zeroed  *)
(* context.  0 stands for a number that is not set.                         *)
CryptoNull == [null |-> TRUE, e |-> 0, y |-> 0, f |-> 0, k |-> 0, hash |-> 0,
               hostkey |-> "none", keys |-> FALSE]
crypto_new == [CryptoNull EXCEPT !.null = FALSE]

NoBanner == <<NUL>>    \* clientbanner == NULL

(* A field appended to a packet buffer *)
Field(t, v) == [tag |-> t, val |-> v]

(* The 10 algorithm slots of a KEXINIT, in index order (SSH_KEX ..          *)
(* SSH_LANG_S_C); a method list is a sequence of names, <<>> is NULL.       *)
SlotSeq == <<"kex", "hostkeys", "crypt_c_s", "crypt_s_c", "mac_c_s", "mac_s_c",
             "comp_c_s", "comp_s_c", "lang_c_s", "lang_s_c">>
Slots == {SlotSeq[i] : i \in 1..Len(SlotSeq)}
SlotIndex(sl) == CHOOSE i \in 1..Len(SlotSeq) : SlotSeq[i] = sl
NoMethods == [sl \in Slots |-> <<>>]

KeyTypeNo(t) == CASE t = "dss" -> 1 [] t = "rsa" -> 2 [] OTHER -> 0

(* Socket handles: the listening socket, the one accept() returns, none *)
ListenFd == "listenfd"
AcceptedFd == "connfd"
InvalidSocket == "invalid"

(* The session ssh_bind_accept hands over: server role, version 2, the      *)
(* host keys the listener loaded.                                          *)
NewSession(rsa, dsa, allow1, allow2) ==
  [server |-> TRUE, version |-> 2, ssh1 |-> allow1, ssh2 |-> allow2,
   session_state |-> "None", dh_handshake_state |-> "Init",
   rsa_key |-> rsa, dsa_key |-> dsa, hostkeys |-> "unknown",
   wanted_methods |-> NoMethods, server_methods |-> NoMethods,
   client_kex |-> [hostkeys |-> <<>>, crypt_match |-> FALSE,
                   others_match |-> FALSE],
   session_id |-> 0,
   bindaddr |-> "null", fd |-> AcceptedFd,
   auth_methods |-> {}, message_callback |-> FALSE,
   out_buffer |-> <<>>, sent |-> <<>>, socket_open |-> TRUE,
   alive |-> FALSE, connected |-> FALSE, clientbanner |-> NoBanner,
   data_cb |-> "none", current_crypto |-> CryptoNull,
   next_crypto |-> crypto_new]

----------------------------------------------------------------------------
(* Library calls made by server.c *)

buffer_reinit(s) == [s EXCEPT !.out_buffer = <<>>]

buffer_add(s, fld) == [s EXCEPT !.out_buffer = Append(@, fld)]

(* packet_send: frames and writes the output buffer, then empties it.  A    *)
(* failed send writes nothing; whether the buffer was emptied by then is    *)
(* not determined ("kept" or "reset").                                     *)
packet_send(s, outcome) ==
  CASE outcome = "ok" ->
         [s EXCEPT !.sent = Append(@, s.out_buffer), !.out_buffer = <<>>]
    [] outcome = "reset" -> buffer_reinit(s)
    [] OTHER -> s

RECURSIVE Pow(_, _)
Pow(b, n) == IF n = 0 THEN 1 ELSE b * Pow(b, n - 1)

(* dh_import_e: e must be a positive integer below the group order *)
ValidE(e) == 0 < e /\ e < DhP

dh_import_e(s, e) == [s EXCEPT !.next_crypto.e = e]

dh_generate_y(s, y) == [s EXCEPT !.next_crypto.y = y]

dh_generate_f(s) == [s EXCEPT !.next_crypto.f = Pow(2, s.next_crypto.y) % DhP]

dh_import_pubkey(s, kt) == [s EXCEPT !.next_crypto.hostkey = kt]

dh_build_k(s) ==
  [s EXCEPT !.next_crypto.k = Pow(s.next_crypto.e, s.next_crypto.y) % DhP]

(* The exchange hash H over host-key blob, e, f and K (never 0) *)
ExchangeHash(c) == 1 + ((KeyTypeNo(c.hostkey) + c.e + 2 * c.f + 3 * c.k) % 7)

(* make_sessionid: computes H; the session-id becomes H if it is unset *)
make_sessionid(s) ==
  LET h == ExchangeHash(s.next_crypto)
  IN [s EXCEPT !.next_crypto.hash = h,
               !.session_id = IF @ = 0 THEN h ELSE @]

(* ssh_analyze_banner: which protocol versions the peer's banner offers *)
ssh_analyze_banner(b) ==
  CASE IsPrefix(Ssh20, b) -> [ok |-> TRUE, ssh1 |-> FALSE, ssh2 |-> TRUE]
    [] IsPrefix(Ssh199, b) -> [ok |-> TRUE, ssh1 |-> TRUE, ssh2 |-> TRUE]
    [] IsPrefix(<<"S", "S", "H", "-", "1", ".">>, b) ->
         [ok |-> TRUE, ssh1 |-> TRUE, ssh2 |-> FALSE]
    [] OTHER -> [ok |-> FALSE, ssh1 |-> FALSE, ssh2 |-> FALSE]

(* ssh_send_kex: one SSH_MSG_KEXINIT packet carrying the server's lists *)
ssh_send_kex(s) ==
  packet_send(buffer_add(s, Field("KEXINIT", s.server_methods)), "ok")

(* The negotiated choice for a slot: the first entry of the server's list   *)
(* that the peer's list holds too; <<>> when there is none.                 *)
RECURSIVE FirstMatch(_, _)
FirstMatch(server, client) ==
  IF server = <<>> THEN <<>>
  ELSE IF \E i \in 1..Len(client) : client[i] = Head(server)
       THEN <<Head(server)>>
       ELSE FirstMatch(Tail(server), client)

(* crypt_set_algorithms_server: picks the server-side cipher, MAC and       *)
(* compression; -1 when one of these slots has no common entry.             *)
crypt_set_algorithms_server(s) ==
  [s |-> s, rc |-> IF s.client_kex.crypt_match THEN 0 ELSE -1]

(* set_kex on the peer's KEXINIT: every slot must have a common entry; the  *)
(* host-key type of the session is the negotiated host-key algorithm.       *)
set_kex_ok(s, kex) ==
  /\ kex.crypt_match
  /\ kex.others_match
  /\ FirstMatch(s.server_methods.hostkeys, kex.hostkeys) # <<>>

set_kex(s, kex) ==
  LET m == FirstMatch(s.server_methods.hostkeys, kex.hostkeys)
  IN IF m = <<>> THEN s
     ELSE [s EXCEPT !.hostkeys = IF m[1] = "ssh-dss" THEN "dss" ELSE "rsa"]

generate_session_keys(s) == [s EXCEPT !.next_crypto.keys = TRUE]

----------------------------------------------------------------------------
(* supported_methods[]: the built-in default list of a slot *)
supported_methods(sl) ==
  IF sl = "hostkeys" THEN <<"ssh-rsa", "ssh-dss">> ELSE <<"default">>

(* Mutant: both algorithms are offered whatever keys are held *)
HostkeysForKeys_Both(s) == <<"ssh-dss", "ssh-rsa">>

(* server_set_kex, lines 242-255: ssh_options_set_algo(SSH_HOSTKEYS, ...)   *)
(* sets the wanted host-key list from the keys the session holds            *)
HostkeysForKeys(s) ==
  IF s.dsa_key /\ s.rsa_key THEN <<"ssh-dss", "ssh-rsa">>
  ELSE IF s.dsa_key THEN <<"ssh-dss">>
  ELSE <<"ssh-rsa">>

(* server_set_kex, lines 235-277: the lists of the server's KEXINIT *)
server_set_kex(s) ==
  LET wanted == [s.wanted_methods EXCEPT !.hostkeys = HostkeysForKeys(s)]
  IN [s EXCEPT !.wanted_methods = wanted,
               !.server_methods =
                  [sl \in Slots |-> IF wanted[sl] = <<>>
                                    THEN supported_methods(sl)
                                    ELSE wanted[sl]]]

(* dh_handshake_server, lines 329-338: the private key to sign with *)
SelectPrv(s) ==
  CASE s.hostkeys = "dss" -> IF s.dsa_key THEN "dss" ELSE "null"
    [] s.hostkeys = "rsa" -> IF s.rsa_key THEN "rsa" ELSE "null"
    [] OTHER -> "null"

(* Mutant: only the RSA key is freed *)
FreeHostKeys_KeepDsa(s) == [s EXCEPT !.rsa_key = FALSE]

(* dh_handshake_server, lines 375-383 *)
FreeHostKeys(s) == [s EXCEPT !.rsa_key = FALSE, !.dsa_key = FALSE]

(* The library calls of dh_handshake_server that can fail, in call order;   *)
(* a send can fail with the output buffer kept or already reset.            *)
AddFails == {"add_type", "add_pubkey", "add_f", "add_sign"}
SendReplyFails == {"send_reply_kept", "send_reply_reset"}
SendNewkeysFails == {"send_newkeys_kept", "send_newkeys_reset"}
BeforeWriteFails == {"generate_y", "generate_f", "get_f", "pub_from_priv",
                     "pub_to_string", "build_k", "make_sessionid", "sign"}
AfterWriteFails == AddFails \cup SendReplyFails \cup {"add_newkeys"}
                     \cup SendNewkeysFails
DhFails == {"none"} \cup BeforeWriteFails \cup AfterWriteFails

SendOutcome(fail, fails) ==
  IF fail \notin fails THEN "ok"
  ELSE IF fail \in {"send_reply_reset", "send_newkeys_reset"} THEN "reset"
  ELSE "kept"

(* The fields of SSH_MSG_KEXDH_REPLY appended before add `fail` fails *)
ReplyFields(s, prv, fail) ==
  LET all == <<Field("KEXDH_REPLY", 31), Field("pubkey", KeyTypeNo(prv)),
               Field("f", s.next_crypto.f), Field("sign", s.next_crypto.hash)>>
      n == CASE fail = "add_type" -> 0 [] fail = "add_pubkey" -> 1
             [] fail = "add_f" -> 2 [] fail = "add_sign" -> 3 [] OTHER -> 4
  IN SubSeq(all, 1, n)

DhSendReply_NewkeysAnyway(s, prv, fail) ==
  LET s1 == [s EXCEPT !.out_buffer = @ \o ReplyFields(s, prv, fail)]
      s2 == packet_send(s1, SendOutcome(fail, SendReplyFails))
      s3 == buffer_add(s2, Field("NEWKEYS", 21))
      s4 == packet_send(s3, SendOutcome(fail, SendNewkeysFails))
  IN CASE fail \in AddFails -> [s |-> buffer_reinit(s1), rc |-> -1]
       [] fail = "add_newkeys" -> [s |-> buffer_reinit(s2), rc |-> -1]
       [] fail \in SendNewkeysFails -> [s |-> s4, rc |-> -1]
       [] OTHER -> [s |-> [s4 EXCEPT !.dh_handshake_state = "NewkeysSent"],
                    rc |-> 0]

(* dh_handshake_server, lines 385-412: the reply and NEWKEYS are written    *)
(* and sent; s is the session after the host keys were freed.               *)
DhSendReply(s, prv, fail) ==
  LET s1 == [s EXCEPT !.out_buffer = @ \o ReplyFields(s, prv, fail)]
      s2 == packet_send(s1, SendOutcome(fail, SendReplyFails))
      s3 == buffer_add(s2, Field("NEWKEYS", 21))
      s4 == packet_send(s3, SendOutcome(fail, SendNewkeysFails))
  IN CASE fail \in AddFails -> [s |-> buffer_reinit(s1), rc |-> -1]
       [] fail \in SendReplyFails -> [s |-> s2, rc |-> -1]
       [] fail = "add_newkeys" -> [s |-> buffer_reinit(s2), rc |-> -1]
       [] fail \in SendNewkeysFails -> [s |-> s4, rc |-> -1]
       [] OTHER -> [s |-> [s4 EXCEPT !.dh_handshake_state = "NewkeysSent"],
                    rc |-> 0]

(* dh_handshake_server, lines 307-413: y is the secret dh_generate_y draws, *)
(* fail the library call that fails ("none": all succeed).  The result      *)
(* holds the session it leaves, its return value and the step that failed.  *)
dh_handshake_server(s, y, fail) ==
  LET s1 == dh_generate_y(s, y)
      s2 == dh_generate_f(s1)
      prv == SelectPrv(s2)
      s3 == dh_import_pubkey(s2, prv)
      s4 == dh_build_k(s3)
      s5 == make_sessionid(s4)
      Failed(at, r) == [s |-> at, rc |-> -1, failed |-> r]
  IN CASE fail = "generate_y" -> Failed(s, fail)
       [] fail = "generate_f" -> Failed(s1, fail)
       [] fail = "get_f" -> Failed(s2, fail)
       [] prv = "null" -> Failed(s2, "pub_from_priv")
       [] fail \in {"pub_from_priv", "pub_to_string"} -> Failed(s2, fail)
       [] fail = "build_k" -> Failed(s3, fail)
       [] fail = "make_sessionid" -> Failed(s4, fail)
       [] fail = "sign" -> Failed(s5, fail)
       [] OTHER -> LET r == DhSendReply(FreeHostKeys(s5), prv, fail)
                   IN [s |-> r.s, rc |-> r.rc, failed |-> fail]

(* Mutant: the handler without the check of the DH sub-state (line 284) *)
ssh_packet_kexdh_init_NoStateCheck(s, pkt, y, fail) ==
  IF pkt.e = -1
  THEN [s |-> s, rc |-> -1, e |-> pkt.e, failed |-> "off"]
  ELSE IF ~ValidE(pkt.e)
  THEN [s |-> [s EXCEPT !.session_state = "Error"], rc |-> 1, e |-> pkt.e,
        failed |-> "off"]
  ELSE LET r == dh_handshake_server(
                  [dh_import_e(s, pkt.e) EXCEPT !.dh_handshake_state = "InitSent"],
                  y, fail)
       IN [s |-> r.s, rc |-> 1, e |-> pkt.e, failed |-> r.failed]

(* SSH_PACKET_CALLBACK(ssh_packet_kexdh_init), lines 279-305.  pkt.e is the *)
(* e of the packet, -1 when the packet carries none.  The value             *)
(* dh_handshake_server returns is dropped (line 298).  The result holds the *)
(* session it leaves, its return value, the e it extracted (-2: the packet  *)
(* was not read) and the step of dh_handshake_server that failed ("off":    *)
(* it was not called).                                                      *)
ssh_packet_kexdh_init(s, pkt, y, fail) ==
  IF s.dh_handshake_state # "Init"
  THEN [s |-> s, rc |-> 1, e |-> -2, failed |-> "off"]
  ELSE IF pkt.e = -1
  THEN [s |-> s, rc |-> -1, e |-> pkt.e, failed |-> "off"]
  ELSE IF ~ValidE(pkt.e)
  THEN [s |-> [s EXCEPT !.session_state = "Error"], rc |-> 1, e |-> pkt.e,
        failed |-> "off"]
  ELSE LET r == dh_handshake_server(
                  [dh_import_e(s, pkt.e) EXCEPT !.dh_handshake_state = "InitSent"],
                  y, fail)
       IN [s |-> r.s, rc |-> 1, e |-> pkt.e, failed |-> r.failed]

----------------------------------------------------------------------------
(* ssh_server_connection_callback, lines 421-537.  o holds the outcomes of  *)
(* the library calls it makes and the build's WITH_SSH1.                    *)

(* The error label, lines 532-535 *)
ConnError(s) ==
  [s EXCEPT !.socket_open = FALSE, !.alive = FALSE, !.session_state = "Error"]

(* lines 462-475: the packet layer takes over, KEXINIT is sent *)
ConnStartKex(s, o) ==
  LET s1 == [s EXCEPT !.data_cb = IF s.version = 2 THEN "packet2"
                                  ELSE IF o.with_ssh1 THEN "packet1" ELSE @,
                      !.session_state = "InitialKex"]
  IN IF o.send_kex_ok THEN ssh_send_kex(s1) ELSE ConnError(s1)

(* case SSH_SESSION_STATE_BANNER_RECEIVED, lines 429-475 *)
ConnBannerReceived(s, o) ==
  IF s.clientbanner = NoBanner THEN ConnError(s)
  ELSE LET a == ssh_analyze_banner(s.clientbanner)
       IN IF ~a.ok THEN ConnError(s)
          ELSE IF a.ssh2 /\ s.ssh2 THEN ConnStartKex([s EXCEPT !.version = 2], o)
          ELSE IF a.ssh1 /\ s.ssh1 THEN ConnStartKex([s EXCEPT !.version = 1], o)
          ELSE ConnError(s)

(* Mutant: the result of set_kex is dropped like the one before it *)
ConnKexinitReceived_Unchecked(s) ==
  LET s1 == crypt_set_algorithms_server(s).s
  IN [set_kex(s1, s1.client_kex) EXCEPT !.session_state = "Dh"]

(* case SSH_SESSION_STATE_KEXINIT_RECEIVED, lines 488-497: the value        *)
(* crypt_set_algorithms_server returns is dropped (line 491), the one of    *)
(* set_kex is checked.                                                      *)
ConnKexinitReceived(s) ==
  LET s1 == crypt_set_algorithms_server(s).s
  IN IF ~set_kex_ok(s1, s1.client_kex) THEN ConnError(s1)
     ELSE [set_kex(s1, s1.client_kex) EXCEPT !.session_state = "Dh"]

(* Mutant: the session-id is taken from the new next_crypto at the cutover *)
ConnDh_SessionIdFromNext(s, o) ==
  IF s.dh_handshake_state # "Finished" THEN s
  ELSE IF ~o.keys_ok THEN ConnError(s)
  ELSE LET s1 == generate_session_keys(s)
           s2 == [s1 EXCEPT !.current_crypto = s1.next_crypto,
                            !.next_crypto = IF o.crypto_ok THEN crypto_new
                                            ELSE CryptoNull,
                            !.session_id = 0]
       IN IF ~o.crypto_ok THEN ConnError(s2)
          ELSE [s2 EXCEPT !.connected = TRUE,
                          !.session_state = "Authenticating"]

(* Mutant: the new context is allocated before next_crypto is promoted *)
ConnDh_FreshFirst(s, o) ==
  IF s.dh_handshake_state # "Finished" THEN s
  ELSE IF ~o.keys_ok THEN ConnError(s)
  ELSE LET s1 == generate_session_keys(s)
           s2 == [s1 EXCEPT !.next_crypto = IF o.crypto_ok THEN crypto_new
                                            ELSE CryptoNull,
                            !.current_crypto = IF o.crypto_ok THEN crypto_new
                                               ELSE CryptoNull]
       IN IF ~o.crypto_ok THEN ConnError(s2)
          ELSE [s2 EXCEPT !.connected = TRUE,
                          !.session_state = "Authenticating"]

(* case SSH_SESSION_STATE_DH, lines 498-522 *)
ConnDh(s, o) ==
  IF s.dh_handshake_state # "Finished" THEN s
  ELSE IF ~o.keys_ok THEN ConnError(s)
  ELSE LET s1 == generate_session_keys(s)
           s2 == [s1 EXCEPT !.current_crypto = s1.next_crypto,
                            !.next_crypto = IF o.crypto_ok THEN crypto_new
                                            ELSE CryptoNull]
       IN IF ~o.crypto_ok THEN ConnError(s2)
          ELSE [s2 EXCEPT !.connected = TRUE,
                          !.session_state = "Authenticating"]

ssh_server_connection_callback(s, o) ==
  CASE s.session_state = "BannerReceived" -> ConnBannerReceived(s, o)
    [] s.session_state = "KexinitReceived" -> ConnKexinitReceived(s)
    [] s.session_state = "Dh" -> ConnDh(s, o)
    [] s.session_state = "Error" -> ConnError(s)
    [] OTHER -> s

(* callback_receive_banner, lines 550-600, r being what its loop found in   *)
(* the buffer (BannerScan): the session it leaves, the count it returns and *)
(* the buffer it wrote into.  dup_ok: strdup returned memory.               *)
callback_receive_banner(s, r, dup_ok, o) ==
  CASE r.ev = "banner" ->
         [s |-> ssh_server_connection_callback(
                  [s EXCEPT !.clientbanner = IF dup_ok THEN r.str ELSE NoBanner,
                            !.session_state = "BannerReceived"], o),
          ret |-> r.ret, buf |-> r.buf]
    [] r.ev = "too_large" ->
         [s |-> [s EXCEPT !.session_state = "Error"], ret |-> 0, buf |-> r.buf]
    [] OTHER -> [s |-> s, ret |-> 0, buf |-> r.buf]

(* The KEXINIT handler of the packet layer: in InitialKex the peer's offers *)
(* are recorded, the state becomes KexinitReceived and the connection       *)
(* callback runs; in any other state the packet is a protocol violation.    *)
ssh_packet_kexinit(s, pkt, o) ==
  IF s.session_state # "InitialKex" THEN ConnError(s)
  ELSE ssh_server_connection_callback(
         [s EXCEPT !.client_kex = [hostkeys |-> pkt.hostkeys,
                                   crypt_match |-> pkt.crypt_match,
                                   others_match |-> pkt.others_match],
                   !.session_state = "KexinitReceived"], o)

(* The NEWKEYS handler of the packet layer: after the server's NEWKEYS was  *)
(* sent the DH sub-state becomes Finished and the connection callback runs; *)
(* otherwise the packet is a protocol violation.                            *)
ssh_packet_newkeys(s, o) ==
  IF s.session_state = "Dh" /\ s.dh_handshake_state = "NewkeysSent"
  THEN ssh_server_connection_callback(
         [s EXCEPT !.dh_handshake_state = "Finished"], o)
  ELSE ConnError(s)

----------------------------------------------------------------------------
(* Messages and their default replies *)

(* The bits of session->auth_methods, a mask being the set of bits set;     *)
(* AuthNames are the four the default reply names, in the order it tests    *)
(* them (lines 768-779)                                                     *)
AuthBits == {"none", "password", "publickey", "hostbased", "interactive"}
AuthNames == <<"publickey", "keyboard-interactive", "password", "hostbased">>
AuthBitOf(name) == IF name = "keyboard-interactive" THEN "interactive" ELSE name

(* A queued message: its type, and for a channel request whether the peer   *)
(* wants a reply; chan is the sender (channel open) or the channel's remote *)
(* id (channel request)                                                     *)
MsgTypes == {"auth", "channel_open", "channel", "service", "other"}
Message(id, type, want_reply, chan) ==
  [id |-> id, type |-> type, want_reply |-> want_reply, chan |-> chan]

(* The library calls of a default reply that can fail: the k-th buffer_add, *)
(* ssh_string_from_char, packet_send (buffer kept or already reset)         *)
ReplyFails == {"none", "add1", "add2", "add3", "add4", "add5", "string",
               "send_kept", "send_reset"}

(* What the write to methods_c[strlen(methods_c) - 1] does when the string  *)
(* is empty (index -1, outside the array): nothing that shows, or a list    *)
(* that is not the one built                                                *)
UbOutcomes == {"harmless", "corrupt"}

(* The buffer_add_* calls numbered first, first + 1, ... of a reply, up to   *)
(* the one that fails: the session with the fields before it appended, and  *)
(* whether all were.  A failed call returns at once; nothing resets the     *)
(* output buffer.                                                           *)
AddNames == <<"add1", "add2", "add3", "add4", "add5">>
AddFields(s, flds, first, fail) ==
  LET bad == {k \in 1..Len(flds) : fail = AddNames[first + k - 1]}
      n == IF bad = {} THEN Len(flds) ELSE Min(bad) - 1
  IN [s |-> [s EXCEPT !.out_buffer = @ \o SubSeq(flds, 1, n)],
      ok |-> bad = {}]

(* return packet_send(session) at the end of a reply *)
SendReply(s, fail) ==
  IF fail \in {"send_kept", "send_reset"}
  THEN [s |-> packet_send(s, IF fail = "send_reset" THEN "reset" ELSE "kept"),
        rc |-> -1]
  ELSE [s |-> packet_send(s, "ok"), rc |-> 0]

(* The names strcat'ed to methods_c for a mask, lines 768-779 *)
AuthMethodList(mask) ==
  SelectSeq(AuthNames, LAMBDA nm : AuthBitOf(nm) \in mask)

(* ssh_message_auth_reply_default, lines 753-812; partial is 0 or 1 *)
ssh_message_auth_reply_default(s, partial, fail, ub) ==
  LET a1 == AddFields(s, <<Field("USERAUTH_FAILURE", 51)>>, 1, fail)
      mask == IF s.auth_methods = {} THEN {"publickey", "password"}
              ELSE s.auth_methods
      s2 == [a1.s EXCEPT !.auth_methods = mask]
      built == AuthMethodList(mask)
      methods_c == IF built = <<>> /\ ub = "corrupt" THEN <<"?">> ELSE built
      a2 == AddFields(s2, <<Field("methods", methods_c),
                            Field("partial", IF partial # 0 THEN 1 ELSE 0)>>,
                      2, fail)
  IN IF ~a1.ok THEN [s |-> s, rc |-> -1]
     ELSE IF fail = "string" THEN [s |-> s2, rc |-> -1]
     ELSE IF ~a2.ok THEN [s |-> a2.s, rc |-> -1]
     ELSE SendReply(a2.s, fail)

(* ssh_message_channel_request_open_reply_default, lines 814-841 *)
ssh_message_channel_request_open_reply_default(s, msg, fail) ==
  LET a == AddFields(s, <<Field("CHANNEL_OPEN_FAILURE", 92),
                          Field("sender", msg.chan),
                          Field("reason", "ADMINISTRATIVELY_PROHIBITED"),
                          Field("description", <<>>),
                          Field("language", <<>>)>>, 1, fail)
  IN IF ~a.ok THEN [s |-> a.s, rc |-> -1] ELSE SendReply(a.s, fail)

ssh_message_channel_request_reply_default_Always(s, msg, fail) ==
  LET a == AddFields(s, <<Field("CHANNEL_FAILURE", 100),
                          Field("channel", msg.chan)>>, 1, fail)
  IN IF ~a.ok THEN [s |-> a.s, rc |-> -1] ELSE SendReply(a.s, fail)

(* ssh_message_channel_request_reply_default, lines 843-866 *)
ssh_message_channel_request_reply_default(s, msg, fail) ==
  LET a == AddFields(s, <<Field("CHANNEL_FAILURE", 100),
                          Field("channel", msg.chan)>>, 1, fail)
  IN IF ~msg.want_reply THEN [s |-> s, rc |-> 0]
     ELSE IF ~a.ok THEN [s |-> a.s, rc |-> -1]
     ELSE SendReply(a.s, fail)

(* ssh_message_service_reply_success, lines 873-891, which is the default   *)
(* reply to a service request (lines 868-871)                               *)
ssh_message_service_reply_success(s, msg, fail) ==
  LET a == AddFields(s, <<Field("SERVICE_ACCEPT", 6),
                          Field("service", <<"service">>)>>, 1,
                     IF fail = "string" THEN "add2" ELSE fail)
  IN IF ~a.ok THEN [s |-> a.s, rc |-> -1] ELSE SendReply(a.s, fail)

(* ssh_message_reply_default, lines 893-915 *)
ssh_message_reply_default(s, msg, fail, ub) ==
  CASE msg.type = "auth" -> ssh_message_auth_reply_default(s, 0, fail, ub)
    [] msg.type = "channel_open" ->
         ssh_message_channel_request_open_reply_default(s, msg, fail)
    [] msg.type = "channel" ->
         ssh_message_channel_request_reply_default(s, msg, fail)
    [] msg.type = "service" -> ssh_message_service_reply_success(s, msg, fail)
    [] OTHER -> [s |-> s, rc |-> -1]

(* An entry of the log of ssh_execute_message_callbacks *)
Did(what, msg, ret) == [what |-> what, msg |-> msg, ret |-> ret]

(* The loops of ssh_execute_message_callbacks, lines 1087-1107, on session  *)
(* s, queue q and log l.  in[id] holds, for the message id, what the        *)
(* callback returns and what happens in its default reply.                  *)
RECURSIVE MessageLoop_ReplyUnlessHandled(_, _, _, _)
MessageLoop_ReplyUnlessHandled(s, q, l, in) ==
  IF q = <<>> THEN [s |-> s, queue |-> q, mlog |-> l, rc |-> 0]
  ELSE LET msg == Head(q)
           i == in[msg.id]
           ret == IF s.message_callback THEN i.cbret ELSE 1
           l1 == IF s.message_callback
                 THEN Append(l, Did("callback", msg, ret)) ELSE l
           r == ssh_message_reply_default(s, msg, i.fail, i.ub)
           l2 == Append(Append(l1, Did("default", msg, r.rc)),
                        Did("free", msg, 0))
       IN IF ret = 0
          THEN MessageLoop_ReplyUnlessHandled(
                 s, Tail(q), Append(l1, Did("free", msg, 0)), in)
          ELSE IF r.rc # 0
          THEN [s |-> r.s, queue |-> Tail(q), mlog |-> l2, rc |-> r.rc]
          ELSE MessageLoop_ReplyUnlessHandled(r.s, Tail(q), l2, in)

RECURSIVE MessageLoop(_, _, _, _)
MessageLoop(s, q, l, in) ==
  IF q = <<>> THEN [s |-> s, queue |-> q, mlog |-> l, rc |-> 0]
  ELSE LET msg == Head(q)
           i == in[msg.id]
           ret == IF s.message_callback THEN i.cbret ELSE 1
           l1 == IF s.message_callback
                 THEN Append(l, Did("callback", msg, ret)) ELSE l
           r == ssh_message_reply_default(s, msg, i.fail, i.ub)
           l2 == Append(Append(l1, Did("default", msg, r.rc)),
                        Did("free", msg, 0))
       IN IF ret # 1
          THEN MessageLoop(s, Tail(q), Append(l1, Did("free", msg, 0)), in)
          ELSE IF r.rc # 0
          THEN [s |-> r.s, queue |-> Tail(q), mlog |-> l2, rc |-> r.rc]
          ELSE MessageLoop(r.s, Tail(q), l2, in)

(* ssh_execute_message_callbacks, lines 1081-1109: ssh_handle_packets has   *)
(* put the messages `new` at the tail of the queue                          *)
ssh_execute_message_callbacks(s, q, new, in) ==
  MessageLoop(s, q \o new, <<>>, in)

----------------------------------------------------------------------------
(* The listener *)

(* A session as ssh_new leaves it: no role, no version, no host key, a      *)
(* socket object without a handle                                           *)
FreshSession(allow1, allow2) ==
  [NewSession(FALSE, FALSE, allow1, allow2)
     EXCEPT !.server = FALSE, !.version = 0, !.fd = InvalidSocket,
            !.socket_open = FALSE]

(* struct ssh_bind_struct: the listening socket, whether the paths of the   *)
(* DSA and RSA host keys are set, the preferred lists, the bind address     *)
Listener(fd, dsakey, rsakey, wanted, addr) ==
  [bindfd |-> fd, dsakey |-> dsakey, rsakey |-> rsakey,
   wanted_methods |-> wanted, bindaddr |-> addr]

(* close(fd): a handle that is open is closed; a close of one that is not   *)
(* (closed before) is recorded                                              *)
close(o, fd) ==
  IF fd \in o.open THEN [o EXCEPT !.open = @ \ {fd}]
  ELSE [o EXCEPT !.reclosed = @ \cup {fd}]

(* The calls of ssh_bind_listen and bind_socket that can fail, in order *)
ListenFails == {"none", "init", "socket", "resolve", "setsockopt", "bind",
                "listen"}

(* socket(): the lowest handle that is not open, none when all are *)
ListenFds == <<ListenFd, "listenfd2">>
socket(o) ==
  LET free == {k \in DOMAIN ListenFds : ListenFds[k] \notin o.open}
  IN IF free = {} THEN InvalidSocket ELSE ListenFds[Min(free)]

(* ssh_bind_listen, lines 148-176, with bind_socket, lines 85-130, on       *)
(* listener b and operating system o.  The result holds the listener, the   *)
(* operating system and the return value.                                   *)
ssh_bind_listen(b, o, fail) ==
  LET fd == socket(o)
      o1 == [o EXCEPT !.open = @ \cup {fd}]
  IN CASE fail = "init" -> [b |-> b, os |-> o, rc |-> -1]
       [] fail = "socket" \/ fd = InvalidSocket -> [b |-> b, os |-> o, rc |-> -1]
       [] fail \in {"resolve", "setsockopt", "bind"} ->
            [b |-> b, os |-> close(o1, fd), rc |-> -1]
       [] fail = "listen" ->
            [b |-> [b EXCEPT !.bindfd = fd], os |-> close(o1, fd), rc |-> -1]
       [] OTHER -> [b |-> [b EXCEPT !.bindfd = fd], os |-> o1, rc |-> 0]

(* ssh_bind_free, lines 194-223: the listener's handle is closed and its    *)
(* fields released                                                          *)
ssh_bind_free(b, o) ==
  [b |-> Listener(InvalidSocket, FALSE, FALSE, NoMethods, "null"),
   os |-> IF b.bindfd # InvalidSocket THEN close(o, b.bindfd) ELSE o]

(* The calls of ssh_bind_accept that can fail, in call order; a slot name   *)
(* stands for the strdup of that slot's list (line 654)                     *)
AcceptFails == {"none", "load_dsa", "load_rsa", "accept"} \cup Slots
                 \cup {"strdup_bindaddr", "socket_new"}

(* ssh_bind_accept, lines 651-661: the preferences copied before the strdup *)
(* of slot `fail` fails (all of them when none fails)                       *)
CopyMethods(b, s, fail) ==
  LET stop == IF fail \in Slots /\ b.wanted_methods[fail] # <<>>
              THEN SlotIndex(fail) ELSE Len(SlotSeq) + 1
  IN [s EXCEPT !.wanted_methods =
        [sl \in Slots |-> IF b.wanted_methods[sl] # <<>> /\ SlotIndex(sl) < stop
                          THEN b.wanted_methods[sl] ELSE @[sl]]]

(* Mutant: accept without the check that a host-key path is set *)
ssh_bind_accept_NoKeyCheck(b, s, o, fail) ==
  LET Ret(s1, o1, r, at) ==
        [s |-> s1, os |-> o1, rc |-> r, at |-> at, blocked |-> FALSE]
      o1 == [o EXCEPT !.backlog = @ - 1, !.open = @ \cup {AcceptedFd}]
      s1 == [s EXCEPT !.server = TRUE, !.version = 2]
      s2 == CopyMethods(b, s1, fail)
      s3 == [s2 EXCEPT !.bindaddr = b.bindaddr]
      s4 == [s3 EXCEPT !.fd = InvalidSocket, !.socket_open = FALSE]
  IN CASE b.bindfd = InvalidSocket -> Ret(s, o, -1, "not_bound")
       [] b.dsakey /\ fail = "load_dsa" -> Ret(s, o, -1, fail)
       [] b.rsakey /\ fail = "load_rsa" -> Ret(s, o, -1, fail)
       [] fail = "accept" \/ b.bindfd \notin o.open -> Ret(s, o, -1, "accept")
       [] o.backlog = 0 -> [Ret(s, o, 0, "accept") EXCEPT !.blocked = TRUE]
       [] fail \in Slots /\ b.wanted_methods[fail] # <<>> ->
            Ret(s2, o1, -1, "strdup_methods")
       [] b.bindaddr # "null" /\ fail = "strdup_bindaddr" ->
            Ret([s2 EXCEPT !.bindaddr = "null"], o1, -1, fail)
       [] fail = "socket_new" -> Ret(s4, o1, -1, fail)
       [] OTHER -> Ret([s3 EXCEPT !.fd = AcceptedFd, !.socket_open = TRUE,
                                  !.dsa_key = b.dsakey, !.rsa_key = b.rsakey],
                       o1, 0, "done")

(* ssh_bind_accept, lines 602-689, on listener b, session s and operating   *)
(* system o, `fail` the call that fails.  The result holds what it leaves,  *)
(* its return value, the place it returned from, and whether accept() was   *)
(* left waiting for a connection.                                           *)
ssh_bind_accept(b, s, o, fail) ==
  LET Ret(s1, o1, r, at) ==
        [s |-> s1, os |-> o1, rc |-> r, at |-> at, blocked |-> FALSE]
      o1 == [o EXCEPT !.backlog = @ - 1, !.open = @ \cup {AcceptedFd}]
      s1 == [s EXCEPT !.server = TRUE, !.version = 2]
      s2 == CopyMethods(b, s1, fail)
      s3 == [s2 EXCEPT !.bindaddr = b.bindaddr]
      s4 == [s3 EXCEPT !.fd = InvalidSocket, !.socket_open = FALSE]
  IN CASE b.bindfd = InvalidSocket -> Ret(s, o, -1, "not_bound")
       [] ~b.dsakey /\ ~b.rsakey -> Ret(s, o, -1, "no_hostkey")
       [] b.dsakey /\ fail = "load_dsa" -> Ret(s, o, -1, fail)
       [] b.rsakey /\ fail = "load_rsa" -> Ret(s, o, -1, fail)
       [] fail = "accept" \/ b.bindfd \notin o.open -> Ret(s, o, -1, "accept")
       [] o.backlog = 0 -> [Ret(s, o, 0, "accept") EXCEPT !.blocked = TRUE]
       [] fail \in Slots /\ b.wanted_methods[fail] # <<>> ->
            Ret(s2, o1, -1, "strdup_methods")
       [] b.bindaddr # "null" /\ fail = "strdup_bindaddr" ->
            Ret([s2 EXCEPT !.bindaddr = "null"], o1, -1, fail)
       [] fail = "socket_new" -> Ret(s4, o1, -1, fail)
       [] OTHER -> Ret([s3 EXCEPT !.fd = AcceptedFd, !.socket_open = TRUE,
                                  !.dsa_key = b.dsakey, !.rsa_key = b.rsakey],
                       o1, 0, "done")

----------------------------------------------------------------------------
(* Inputs *)

Terminators == {<<CR, LF>>, <<LF>>, <<CR>>, <<>>}
Tails == {<<>>, <<"p", "q">>}
Prefixes == {Ssh20, Ssh199, Ssh15, Junk}

(* Filler lengths: short ones, and those that put the end of an SSH-2.0     *)
(* banner within NearBound bytes of index BannerMaxIndex                    *)
FillLens == (0..MaxFill) \cup
            ((BannerMaxIndex - Len(Ssh20) - NearBound)..
             (BannerMaxIndex - Len(Ssh20) + NearBound))

BannerStreams ==
  {p \o Str(n, "x") \o t \o u :
     p \in Prefixes, n \in FillLens, t \in Terminators, u \in Tails}

(* The peers of the handshake: an SSH-2.0 and an SSH-1.5 banner, a          *)
(* line that is no banner, and BannerMaxIndex + 2 bytes without '\n'        *)
HandshakeStreams ==
  {Ssh20 \o <<"x", CR, LF>>, Ssh15 \o <<"x", CR, LF>>, Junk \o <<LF>>,
   Str(BannerMaxIndex + 2, "x")}

HostkeyOffers == {<<"ssh-rsa">>, <<"ssh-dss">>, <<"ssh-rsa", "ssh-dss">>}

(* The peer's KEXINIT: its host-key list, whether its cipher, MAC and       *)
(* compression lists (crypt_match) and its remaining lists (others_match)   *)
(* each share an entry with the server's                                    *)
KexinitPackets ==
  [hostkeys : HostkeyOffers, crypt_match : BOOLEAN, others_match : BOOLEAN]

(* e of a KEXDH_INIT: -1 none, 0 and DhP invalid, the rest valid *)
KexdhInitPackets == [e : -1..DhP]

Outcomes == [send_kex_ok : BOOLEAN, keys_ok : BOOLEAN, crypto_ok : BOOLEAN]

Env(o) == [send_kex_ok |-> o.send_kex_ok, keys_ok |-> o.keys_ok,
           crypto_ok |-> o.crypto_ok, with_ssh1 |-> with_ssh1]

Last(op, ret, e, fail, len) ==
  [op |-> op, ret |-> ret, e |-> e, fail |-> fail, len |-> len]

(* The operator's preferences: for the slots of a set S one list each *)
HostkeyPrefs == {<<"ssh-rsa">>, <<"ssh-dss">>}
PrefSets == {S \in SUBSET Slots : Cardinality(S) <= MaxPrefs} \cup {Slots}
WantedConfigs ==
  {[sl \in Slots |-> IF sl \notin S THEN <<>>
                     ELSE IF sl = "hostkeys" THEN hp ELSE <<"pref">>] :
     S \in PrefSets, hp \in HostkeyPrefs}

Listeners ==
  {Listener(fd, dsakey, rsakey, wanted, addr) :
     fd \in {InvalidSocket, ListenFd}, dsakey \in BOOLEAN, rsakey \in BOOLEAN,
     wanted \in WantedConfigs, addr \in {"null", "addr"}}

(* The messages the packet handlers can queue as number id *)
Channels == {3, 7}
Arrivals(id) ==
  {Message(id, type, FALSE, 0) : type \in MsgTypes \ {"channel", "channel_open"}}
    \cup {Message(id, "channel_open", FALSE, c) : c \in Channels}
    \cup {Message(id, "channel", w, c) : w \in BOOLEAN, c \in Channels}

(* What happens to one message: what the callback returns for it, which     *)
(* call of its default reply fails, what the out-of-bounds write does.  The *)
(* last two only matter when a default reply is made, the last only when    *)
(* the reply gets as far as the method list.                                *)
CallbackReturns == {0, 1, 2}
MsgInputs ==
  {i \in [cbret : CallbackReturns, fail : ReplyFails, ub : UbOutcomes] :
     /\ i.cbret # 1 => i.fail = "none"
     /\ i.ub = "corrupt" => i.cbret = 1 /\ i.fail = "none"}

(* The masks ssh_message_auth_set_methods is called with: unset, every     *)
(* bit alone, the four named methods, two out of order, all bits            *)
AuthMasks ==
  {{}} \cup {{b} : b \in AuthBits}
       \cup {AuthBits \ {"none"}, {"hostbased", "publickey"}, AuthBits}

ChunkSizes(n) == {k \in {Len(Ssh20), BannerMaxIndex + 1, n} : 1 <= k /\ k <= n}

----------------------------------------------------------------------------
(* Actions *)

InitWith(streams, keys, allow1, allow2, builds) ==
  /\ \E rsa \in BOOLEAN, dsa \in keys, a1 \in allow1, a2 \in allow2 :
       /\ rsa \/ dsa
       /\ session = NewSession(rsa, dsa, a1, a2)
       /\ sshbind = Listener(ListenFd, dsa, rsa, NoMethods, "null")
  /\ os = [backlog |-> 0, open |-> {ListenFd, AcceptedFd}, reclosed |-> {}]
  /\ queue = <<>>
  /\ mlog = <<>>
  /\ stream0 \in streams
  /\ pending = stream0
  /\ inbuf = <<>>
  /\ pc = "start"
  /\ rc = 0
  /\ with_ssh1 \in builds
  /\ npkts = 0
  /\ last = Last("none", 0, 0, "none", 0)

(* A session that does not allow SSH-1, in a build without WITH_SSH1 *)
Init == InitWith(HandshakeStreams, BOOLEAN, {FALSE}, BOOLEAN, {FALSE})

(* ssh_handle_key_exchange, lines 692-712, up to the loop *)
HandleKeyExchangeStart ==
  /\ pc = "start"
  /\ \E banner_ok \in BOOLEAN, kex_ok \in BOOLEAN :
       IF ~banner_ok
       THEN /\ pc' = "returned"
            /\ rc' = -1
            /\ session' = session
       ELSE LET s1 == [packet_send(buffer_add(session, Field("BANNER", 0)), "ok")
                         EXCEPT !.alive = TRUE,
                                !.session_state = "SocketConnected",
                                !.data_cb = "banner"]
            IN IF ~kex_ok
               THEN /\ pc' = "returned"
                    /\ rc' = -1
                    /\ session' = s1
               ELSE /\ pc' = "loop"
                    /\ rc' = rc
                    /\ session' = server_set_kex(s1)
  /\ last' = Last("start", 0, 0, "none", 0)
  /\ UNCHANGED <<inbuf, pending, stream0, with_ssh1, npkts>>
  /\ UNCHANGED <<bindvars, msgvars>>

(* ssh_handle_key_exchange, lines 714-731: the loop ends and it returns *)
HandleKeyExchangeReturn ==
  /\ pc = "loop"
  /\ session.session_state \in DriverStop
  /\ pc' = "returned"
  /\ rc' = IF session.session_state \in {"Error", "Disconnected"} THEN -1 ELSE 0
  /\ last' = Last("return", 0, 0, "none", 0)
  /\ UNCHANGED <<session, inbuf, pending, stream0, with_ssh1, npkts>>
  /\ UNCHANGED <<bindvars, msgvars>>

(* ssh_handle_packets while the banner receiver is the data callback: k     *)
(* more bytes arrive and callback_receive_banner gets the whole buffer      *)
ReceiveBytes ==
  /\ pc = "loop"
  /\ session.session_state \notin DriverStop
  /\ session.data_cb = "banner"
  /\ pending # <<>>
  /\ \E k \in ChunkSizes(Len(pending)) :
       LET buf == inbuf \o SubSeq(pending, 1, k)
           scan == BannerScan(buf)
       IN /\ \E dup_ok \in BOOLEAN, o \in Outcomes :
               /\ session' = callback_receive_banner(session, scan, dup_ok, Env(o)).s
               /\ last' = Last("banner", scan.ret, 0,
                               IF scan.ev = "banner" /\ ~dup_ok THEN "strdup"
                               ELSE scan.ev, Len(buf))
          /\ inbuf' = SubSeq(scan.buf, scan.ret + 1, Len(scan.buf))
          /\ pending' = SubSeq(pending, k + 1, Len(pending))
  /\ UNCHANGED <<stream0, pc, rc, with_ssh1, npkts>>
  /\ UNCHANGED <<bindvars, msgvars>>

PacketPhase ==
  /\ pc = "loop"
  /\ session.data_cb = "packet2"
  /\ npkts < MaxPackets

(* The peer's SSH_MSG_KEXINIT is dispatched *)
PacketKexinit ==
  /\ PacketPhase
  /\ \E pkt \in KexinitPackets, o \in Outcomes :
       session' = ssh_packet_kexinit(session, pkt, Env(o))
  /\ npkts' = npkts + 1
  /\ last' = Last("kexinit", 1, 0, "none", 0)
  /\ UNCHANGED <<inbuf, pending, stream0, pc, rc, with_ssh1>>
  /\ UNCHANGED <<bindvars, msgvars>>

(* The peer's SSH_MSG_KEXDH_INIT is dispatched to ssh_packet_kexdh_init *)
PacketKexdhInit ==
  /\ PacketPhase
  /\ \E pkt \in KexdhInitPackets, y \in 1..MaxY, fail \in DhFails :
       LET r == ssh_packet_kexdh_init(session, pkt, y, fail)
       IN /\ session' = r.s
          /\ last' = Last("kexdh_init", r.rc, r.e, r.failed, 0)
  /\ npkts' = npkts + 1
  /\ UNCHANGED <<inbuf, pending, stream0, pc, rc, with_ssh1>>
  /\ UNCHANGED <<bindvars, msgvars>>

(* The peer's SSH_MSG_NEWKEYS is dispatched *)
PacketNewkeys ==
  /\ PacketPhase
  /\ \E o \in Outcomes : session' = ssh_packet_newkeys(session, Env(o))
  /\ npkts' = npkts + 1
  /\ last' = Last("newkeys", 1, 0, "none", 0)
  /\ UNCHANGED <<inbuf, pending, stream0, pc, rc, with_ssh1>>
  /\ UNCHANGED <<bindvars, msgvars>>

Next ==
  \/ HandleKeyExchangeStart
  \/ HandleKeyExchangeReturn
  \/ ReceiveBytes
  \/ PacketKexinit
  \/ PacketKexdhInit
  \/ PacketNewkeys

Spec == Init /\ [][Next]_vars

(* The handshake with the driver's own steps taken whenever they can be:    *)
(* ssh_handle_key_exchange starts, its loop takes the bytes the socket      *)
(* holds, and it returns once the loop condition of line 714 is false.      *)
(* The peer is not obliged to send anything.                                *)
SpecLive ==
  /\ Init /\ [][Next]_vars
  /\ WF_vars(HandleKeyExchangeStart)
  /\ WF_vars(ReceiveBytes)
  /\ WF_vars(HandleKeyExchangeReturn)

(* Banner reception alone, over the byte streams around the length limit *)
InitBanner == InitWith(BannerStreams, {FALSE}, {FALSE}, {TRUE}, {FALSE})

NextBanner ==
  \/ HandleKeyExchangeStart
  \/ HandleKeyExchangeReturn
  \/ ReceiveBytes

SpecBanner == InitBanner /\ [][NextBanner]_vars

(* The embedder calls ssh_bind_accept on a listener and a fresh session *)
BindAccept ==
  /\ pc = "bind"
  /\ \E fail \in AcceptFails :
       LET r == ssh_bind_accept(sshbind, session, os, fail)
       IN /\ ~r.blocked
          /\ session' = r.s
          /\ os' = r.os
          /\ rc' = r.rc
          /\ pc' = IF r.rc = 0 THEN "start" ELSE "accept_failed"
          /\ last' = Last("accept", r.rc, 0, r.at, 0)
  /\ UNCHANGED <<sshbind, inbuf, pending, stream0, with_ssh1, npkts>>
  /\ UNCHANGED msgvars

(* Listeners of every configuration, before ssh_bind_accept *)
InitBind ==
  /\ sshbind \in Listeners
  /\ os \in {[backlog |-> n,
              open |-> IF sshbind.bindfd = InvalidSocket THEN {}
                       ELSE {sshbind.bindfd},
              reclosed |-> {}] : n \in 0..MaxBacklog}
  /\ session = FreshSession(FALSE, TRUE)
  /\ queue = <<>>
  /\ mlog = <<>>
  /\ stream0 = <<>>
  /\ pending = <<>>
  /\ inbuf = <<>>
  /\ pc = "bind"
  /\ rc = 0
  /\ with_ssh1 = FALSE
  /\ npkts = 0
  /\ last = Last("none", 0, 0, "none", 0)

NextBind ==
  \/ BindAccept
  \/ HandleKeyExchangeStart

SpecBind == InitBind /\ [][NextBind]_vars

(* The embedder calls ssh_bind_listen *)
BindListen ==
  /\ pc \in {"bind", "accept_failed"}
  /\ \E fail \in ListenFails :
       LET r == ssh_bind_listen(sshbind, os, fail)
       IN /\ sshbind' = r.b
          /\ os' = r.os
          /\ rc' = r.rc
          /\ last' = Last("listen", r.rc, 0, fail, 0)
  /\ pc' = "bind"
  /\ UNCHANGED <<session, inbuf, pending, stream0, with_ssh1, npkts>>
  /\ UNCHANGED msgvars

(* The embedder calls ssh_bind_free *)
BindFree ==
  /\ pc \in {"bind", "accept_failed", "start"}
  /\ LET r == ssh_bind_free(sshbind, os)
     IN /\ sshbind' = r.b
        /\ os' = r.os
  /\ pc' = "freed"
  /\ last' = Last("free", 0, 0, "none", 0)
  /\ UNCHANGED <<session, rc, inbuf, pending, stream0, with_ssh1, npkts>>
  /\ UNCHANGED msgvars

(* Listeners as ssh_bind_new and the option setters leave them, not bound *)
InitListen ==
  /\ sshbind \in {b \in Listeners : b.bindfd = InvalidSocket}
  /\ os \in {[backlog |-> n, open |-> {}, reclosed |-> {}] : n \in 0..MaxBacklog}
  /\ session = FreshSession(FALSE, TRUE)
  /\ queue = <<>>
  /\ mlog = <<>>
  /\ stream0 = <<>>
  /\ pending = <<>>
  /\ inbuf = <<>>
  /\ pc = "bind"
  /\ rc = 0
  /\ with_ssh1 = FALSE
  /\ npkts = 0
  /\ last = Last("none", 0, 0, "none", 0)

NextListen ==
  \/ BindListen
  \/ BindAccept
  \/ BindFree

SpecListen == InitListen /\ [][NextListen]_vars

(* Version selection: short banners of every kind, sessions with every      *)
(* setting of the ssh1 / ssh2 allow-flags, builds with and without          *)
(* WITH_SSH1                                                                *)
VersionStreams ==
  {p \o Str(n, "x") \o t : p \in Prefixes, n \in 0..MaxFill, t \in Terminators}

InitVersion == InitWith(VersionStreams, {FALSE}, BOOLEAN, BOOLEAN, BOOLEAN)

SpecVersion == InitVersion /\ [][NextBanner]_vars

(* A session as ssh_handle_key_exchange returns it on success: the one of   *)
(* a listener with an RSA key after the banner SSH-2.0-x, a KEXINIT that    *)
(* matches, KEXDH_INIT with e = 1 (y = 1) and NEWKEYS                       *)
AuthenticatingSession ==
  LET s == server_set_kex(NewSession(TRUE, FALSE, FALSE, TRUE))
      keys == [null |-> FALSE, e |-> 1, y |-> 1, f |-> 2, k |-> 1, hash |-> 4,
               hostkey |-> "rsa", keys |-> TRUE]
  IN [s EXCEPT !.session_state = "Authenticating",
               !.dh_handshake_state = "Finished",
               !.rsa_key = FALSE, !.hostkeys = "rsa",
               !.client_kex = [hostkeys |-> <<"ssh-rsa">>,
                               crypt_match |-> TRUE, others_match |-> TRUE],
               !.session_id = 4,
               !.sent = <<<<Field("BANNER", 0)>>,
                          <<Field("KEXINIT", s.server_methods)>>,
                          <<Field("KEXDH_REPLY", 31), Field("pubkey", 2),
                            Field("f", 2), Field("sign", 4)>>,
                          <<Field("NEWKEYS", 21)>>>>,
               !.alive = TRUE, !.connected = TRUE,
               !.clientbanner = Ssh20 \o <<"x">>,
               !.data_cb = "packet2",
               !.current_crypto = keys]

(* The message dispatcher of a session that finished the handshake *)
InitMsg ==
  /\ session = AuthenticatingSession
  /\ sshbind = Listener(ListenFd, TRUE, TRUE, NoMethods, "null")
  /\ os = [backlog |-> 0, open |-> {ListenFd, AcceptedFd}, reclosed |-> {}]
  /\ queue = <<>>
  /\ mlog = <<>>
  /\ stream0 = <<>>
  /\ pending = <<>>
  /\ inbuf = <<>>
  /\ pc = "msg"
  /\ rc = 0
  /\ with_ssh1 = FALSE
  /\ npkts = 0
  /\ last = Last("none", 0, 0, "none", 0)

MsgFrame == UNCHANGED <<inbuf, pending, stream0, with_ssh1, bindvars>>

(* A packet handler parses a request and queues the message, during a       *)
(* ssh_handle_packets outside the dispatcher                                *)
EnqueueMessage ==
  /\ pc = "msg"
  /\ npkts < MaxMsgs
  /\ \E msg \in Arrivals(npkts + 1) : queue' = Append(queue, msg)
  /\ npkts' = npkts + 1
  /\ last' = Last("enqueue", 0, 0, "none", 0)
  /\ mlog' = <<>>
  /\ UNCHANGED <<session, rc, pc>>
  /\ MsgFrame

(* ssh_set_message_callback, lines 1074-1079 *)
SetMessageCallback ==
  /\ pc = "msg"
  /\ \E cb \in BOOLEAN : session' = [session EXCEPT !.message_callback = cb]
  /\ last' = Last("set_callback", 0, 0, "none", 0)
  /\ mlog' = <<>>
  /\ UNCHANGED <<rc, npkts, queue, pc>>
  /\ MsgFrame

(* ssh_message_auth_set_methods, lines 956-964 *)
SetAuthMethods ==
  /\ pc = "msg"
  /\ \E methods \in AuthMasks :
       session' = [session EXCEPT !.auth_methods = methods]
  /\ rc' = 0
  /\ last' = Last("set_methods", 0, 0, "none", 0)
  /\ mlog' = <<>>
  /\ UNCHANGED <<npkts, queue, pc>>
  /\ MsgFrame

(* ssh_execute_message_callbacks, lines 1081-1109: its ssh_handle_packets   *)
(* queues at most one more message.  The embedder gives the session up      *)
(* when the call reports an error.                                          *)
ExecuteMessageCallbacks ==
  /\ pc = "msg"
  /\ \E new \in {<<>>} \cup (IF npkts < MaxMsgs
                               THEN {<<m>> : m \in Arrivals(npkts + 1)}
                               ELSE {}) :
       \E in \in [{(queue \o new)[k].id : k \in 1..Len(queue \o new)}
                    -> MsgInputs] :
         LET r == ssh_execute_message_callbacks(session, queue, new, in)
         IN /\ session' = r.s
            /\ queue' = r.queue
            /\ mlog' = r.mlog
            /\ rc' = r.rc
            /\ pc' = IF r.rc = 0 THEN "msg" ELSE "msg_failed"
            /\ npkts' = npkts + Len(new)
            /\ last' = Last("execute", r.rc, 0, "none", Len(queue \o new))
  /\ MsgFrame

NextMsg ==
  \/ EnqueueMessage
  \/ SetMessageCallback
  \/ SetAuthMethods
  \/ ExecuteMessageCallbacks

SpecMsg == InitMsg /\ [][NextMsg]_vars

----------------------------------------------------------------------------
(* Properties *)

(* SSH_MSG_KEXDH_REPLY is among the packets written to the socket *)
ReplyEmitted ==
  \E i \in 1..Len(session.sent) :
    session.sent[i] # <<>> /\ session.sent[i][1].tag = "KEXDH_REPLY"

NewkeysEmitted ==
  \E i \in 1..Len(session.sent) :
    session.sent[i] # <<>> /\ session.sent[i][1].tag = "NEWKEYS"

(* The step is the dispatch of an SSH_MSG_KEXDH_INIT *)
KexdhInitStep == npkts' = npkts + 1 /\ last'.op = "kexdh_init"

(* C1: in every state in which SSH_MSG_KEXDH_REPLY has been emitted, both   *)
(* host-key slots of the session (rsa_key and dsa_key) are empty.           *)
C1_NoHostKeyAfterReply ==
  ReplyEmitted => ~session.rsa_key /\ ~session.dsa_key

(* A session that held both host keys has emitted the reply *)
C1_Witness ==
  ReplyEmitted /\ Len(session.server_methods.hostkeys) = 2 /\ ~session.rsa_key
    /\ ~session.dsa_key

(* C2: an SSH_MSG_KEXDH_INIT dispatched while the DH sub-state is not Init  *)
(* leaves the whole session as it was: session state, DH sub-state, host    *)
(* keys, DH values, session-id, output buffer and the packets sent.         *)
C2_KexdhInitIgnored ==
  [][KexdhInitStep /\ session.dh_handshake_state # "Init"
       => session' = session]_vars

(* A KEXDH_INIT was dropped unread after the server's NEWKEYS was sent *)
C2_Witness ==
  /\ last.op = "kexdh_init"
  /\ last.e = -2
  /\ session.dh_handshake_state = "NewkeysSent"
  /\ NewkeysEmitted

(* C3: once the session-id is assigned no step changes it. *)
C3_SessionIdStable ==
  [][session.session_id # 0 => session'.session_id = session.session_id]_vars

(* The session-id is the exchange hash of the exchange, and a packet was    *)
(* handled after it was set                                                 *)
C3_Witness ==
  /\ session.session_id # 0
  /\ session.session_id = session.next_crypto.hash
  /\ last.op = "kexinit"

(* C4: the session state becomes Authenticating only by a step taken in     *)
(* state Dh that leaves the DH sub-state Finished; that step makes          *)
(* current_crypto the context next_crypto held (its keys derived) and       *)
(* next_crypto a fresh empty context; in every state before it              *)
(* current_crypto is NULL.                                                  *)
C4_Cutover ==
  /\ [](session.session_state \notin {"Authenticating", "Error"}
          => session.current_crypto = CryptoNull)
  /\ [][session'.session_state = "Authenticating"
          /\ session.session_state # "Authenticating"
        => /\ session.session_state = "Dh"
           /\ session'.dh_handshake_state = "Finished"
           /\ session.current_crypto = CryptoNull
           /\ session'.current_crypto =
                [session.next_crypto EXCEPT !.keys = TRUE]
           /\ session'.next_crypto = crypto_new]_vars

(* Authenticating was reached with the contexts of a completed exchange *)
C4_Witness ==
  /\ session.session_state = "Authenticating"
  /\ session.current_crypto.k # 0
  /\ session.current_crypto.keys
  /\ session.next_crypto = crypto_new

(* C5: when ssh_handle_key_exchange has left its loop with the session in   *)
(* state Error, the socket is closed and alive is false.                    *)
C5_ErrorClosesSocket ==
  pc = "returned" /\ session.session_state = "Error"
    => ~session.socket_open /\ ~session.alive

(* C6: a KEXDH_INIT with a valid e dispatched in DH sub-state Init while    *)
(* the host-key slot of the negotiated algorithm is empty, or no host-key   *)
(* algorithm is negotiated, moves the session to Error and emits no packet. *)
C6_MissingHostKeyFatal ==
  [][/\ KexdhInitStep
     /\ session.dh_handshake_state = "Init"
     /\ ValidE(last'.e)
     /\ SelectPrv(session) = "null"
     => /\ session'.session_state = "Error"
        /\ session'.sent = session.sent]_vars

(* C7: after a DH reply that failed once writes to the output buffer had    *)
(* begun, the output buffer is empty, the session state is Error and the    *)
(* DH sub-state is not NewkeysSent.                                         *)
C7_FailedReplyFatal ==
  last.op = "kexdh_init" /\ last.fail \in AfterWriteFails
    => /\ session.out_buffer = <<>>
       /\ session.session_state = "Error"
       /\ session.dh_handshake_state # "NewkeysSent"

(* C8: a KEXDH_INIT without e dispatched in DH sub-state Init (the         *)
(* algorithms negotiated, session state Dh) moves the session to Error,     *)
(* generates no y, leaves the DH sub-state Init and emits no packet.        *)
C8_MissingEFatal ==
  [][/\ KexdhInitStep
     /\ session.session_state = "Dh"
     /\ session.dh_handshake_state = "Init"
     /\ last'.e = -1
     => /\ session'.session_state = "Error"
        /\ session'.next_crypto.y = session.next_crypto.y
        /\ session'.dh_handshake_state = "Init"
        /\ session'.sent = session.sent]_vars

(* The 1-based position of the first '\n' of a byte sequence, 0 if none *)
LfPos(b) ==
  LET lfs == {i \in 1..Len(b) : b[i] = LF}
  IN IF lfs = {} THEN 0 ELSE Min(lfs)

(* C9: once the buffer handed to the banner receiver holds BannerMaxIndex   *)
(* + 1 = 128 bytes without '\n' the session is in state Error; and no       *)
(* banner is accepted whose length with its '\n' exceeds 128 bytes.         *)
C9_BannerBound ==
  /\ (/\ last.op = "banner"
      /\ last.ret = 0
      /\ Len(inbuf) >= BannerMaxIndex + 1
      /\ LfPos(SubSeq(inbuf, 1, BannerMaxIndex + 1)) = 0)
       => session.session_state = "Error"
  /\ last.op = "banner" /\ last.fail \in {"banner", "strdup"}
       => last.ret <= BannerMaxIndex + 1

(* The peer's stream is SSH-2.0-X "\r\n" and more, X without '\r', '\n' or  *)
(* '\0', the '\n' within the first 128 bytes                                *)
C10_Stream ==
  LET p == LfPos(stream0)
  IN /\ IsPrefix(Ssh20, stream0)
     /\ p >= Len(Ssh20) + 2
     /\ p <= BannerMaxIndex + 1
     /\ stream0[p - 1] = CR
     /\ \A i \in 1..(p - 2) : stream0[i] \notin {CR, NUL}

(* C10, first half: for such a stream, the call whose buffer holds the     *)
(* '\n' (strdup returning memory) returns the position just after the '\n',*)
(* keeps the bytes after it, and leaves the session that the connection     *)
(* callback makes of the session with SSH-2.0-X stored as the peer banner   *)
(* and the state set to BannerReceived.                                     *)
C10_Accepted ==
  LET buf == inbuf \o SubSeq(pending, 1, Len(pending) - Len(pending'))
      p == LfPos(stream0)
      X == SubSeq(stream0, 1, p - 2)
  IN (/\ C10_Stream
      /\ pending' # pending
      /\ Len(buf) >= p
      /\ last'.fail # "strdup")
       => /\ last'.fail = "banner"
          /\ last'.ret = p
          /\ inbuf' = SubSeq(buf, p + 1, Len(buf))
          /\ session'.clientbanner = X
          /\ \E o \in Outcomes :
               session' = ssh_server_connection_callback(
                            [session EXCEPT !.clientbanner = X,
                                            !.session_state = "BannerReceived"],
                            Env(o))

(* C10, second half: a call whose buffer holds no '\n' and at most 128      *)
(* bytes returns 0 and leaves the session, its state and its stored banner  *)
(* included, as it was.                                                     *)
C10_Incomplete ==
  LET buf == inbuf \o SubSeq(pending, 1, Len(pending) - Len(pending'))
  IN (/\ pending' # pending
      /\ Len(buf) <= BannerMaxIndex + 1
      /\ LfPos(buf) = 0)
       => /\ last'.ret = 0
          /\ session' = session
          /\ Len(inbuf') = Len(buf)

(* C10: banner parsing, both halves. *)
C10_BannerParse == [][C10_Accepted /\ C10_Incomplete]_vars

(* A banner of more than 100 bytes followed by other bytes was accepted     *)
(* after a call that had found the buffer incomplete                        *)
C10_Witness ==
  /\ C10_Stream
  /\ last.op = "banner"
  /\ last.fail = "banner"
  /\ last.ret = LfPos(stream0)
  /\ last.ret < Len(stream0)
  /\ last.len > Len(Ssh20)
  /\ Len(session.clientbanner) > 100
  /\ session.session_state = "InitialKex"

(* SSH_MSG_KEXINIT is among the packets written to the socket *)
KexinitEmitted ==
  \E i \in 1..Len(session.sent) :
    session.sent[i] # <<>> /\ session.sent[i][1].tag = "KEXINIT"

(* C11: whatever the session's ssh1 / ssh2 flags, once a banner that offers *)
(* only SSH version 1 is stored and processed the session is in state       *)
(* Error, version 1 is not selected and no SSH_MSG_KEXINIT was emitted.     *)
C11_Ssh1OnlyRejected ==
  LET a == ssh_analyze_banner(session.clientbanner)
  IN (session.clientbanner # NoBanner /\ a.ok /\ a.ssh1 /\ ~a.ssh2)
       => /\ session.session_state = "Error"
          /\ session.version # 1
          /\ ~KexinitEmitted

(* Some algorithm slot of the peer's recorded KEXINIT has no entry in       *)
(* common with the server's list                                            *)
KexMismatch(s) ==
  \/ FirstMatch(s.server_methods.hostkeys, s.client_kex.hostkeys) = <<>>
  \/ ~s.client_kex.crypt_match
  \/ ~s.client_kex.others_match

KexListsSet == pc = "loop" /\ last.op = "start"

(* C13: for each of the 10 slots the list of the server's KEXINIT is the    *)
(* preference the operator set on the listener for that slot when there is  *)
(* one, and the default otherwise (for the host-key slot the default that   *)
(* follows from the host keys held).                                        *)
C13_ListsFollowPreference ==
  KexListsSet =>
    \A sl \in Slots :
      session.server_methods[sl] =
        IF sshbind.wanted_methods[sl] # <<>> THEN sshbind.wanted_methods[sl]
        ELSE IF sl # "hostkeys" THEN supported_methods(sl)
        ELSE IF session.dsa_key /\ session.rsa_key THEN <<"ssh-dss", "ssh-rsa">>
        ELSE IF session.dsa_key THEN <<"ssh-dss">>
        ELSE <<"ssh-rsa">>

(* C14: with no host-key preference configured the host-key list offered    *)
(* is ssh-dss,ssh-rsa with both keys held, ssh-dss with the DSA key only,   *)
(* ssh-rsa with the RSA key only; no algorithm is offered whose key slot is *)
(* empty.                                                                   *)
C14_HostkeyDefault ==
  LET hk == session.server_methods.hostkeys
  IN KexListsSet /\ sshbind.wanted_methods.hostkeys = <<>>
       => /\ session.dsa_key /\ session.rsa_key => hk = <<"ssh-dss", "ssh-rsa">>
          /\ session.dsa_key /\ ~session.rsa_key => hk = <<"ssh-dss">>
          /\ ~session.dsa_key /\ session.rsa_key => hk = <<"ssh-rsa">>
          /\ \A i \in 1..Len(hk) :
               /\ hk[i] = "ssh-dss" => session.dsa_key
               /\ hk[i] = "ssh-rsa" => session.rsa_key

(* A listener with only the DSA key path and a preference for another slot  *)
(* offers ssh-dss                                                           *)
C14_Witness ==
  /\ KexListsSet
  /\ sshbind.wanted_methods.hostkeys = <<>>
  /\ sshbind.wanted_methods.kex # <<>>
  /\ session.dsa_key /\ ~session.rsa_key
  /\ session.server_methods.hostkeys = <<"ssh-dss">>

(* C15: ssh_bind_accept on a listener with neither host-key path set        *)
(* returns an error and leaves the waiting connections, the open sockets,   *)
(* the listener and the whole session (role, version, socket, host keys)    *)
(* as they were.                                                            *)
C15_NoHostKeyPath ==
  [][last'.op = "accept" /\ pc = "bind" /\ ~sshbind.dsakey /\ ~sshbind.rsakey
     => /\ rc' = -1
        /\ os' = os
        /\ session' = session
        /\ sshbind' = sshbind]_vars

(* accept was refused for the missing key on a bound listener with a        *)
(* connection waiting                                                       *)
C15_Witness ==
  /\ last.op = "accept"
  /\ last.fail = "no_hostkey"
  /\ sshbind.bindfd = ListenFd
  /\ os.backlog > 0
  /\ rc = -1

----------------------------------------------------------------------------
(* The entries of the log about message m that say `what` *)
LogOf(m, what) ==
  {j \in DOMAIN mlog : mlog[j].msg = m /\ mlog[j].what = what}

(* C16: in ssh_execute_message_callbacks every dequeued message goes to the *)
(* callback exactly when one is registered; it gets the default reply if    *)
(* and only if no callback is registered or the callback returned 1 (so not *)
(* when it returned 0); it is freed exactly once, and nothing is done with  *)
(* it after that.                                                           *)
C16_DefaultReplyRule ==
  \A k \in DOMAIN mlog :
    LET m == mlog[k].msg
    IN /\ Cardinality(LogOf(m, "free")) = 1
       /\ \A f \in LogOf(m, "free") : \A j \in DOMAIN mlog :
            mlog[j].msg = m => j <= f
       /\ Cardinality(LogOf(m, "callback")) = IF session.message_callback
                                              THEN 1 ELSE 0
       /\ Cardinality(LogOf(m, "default")) <= 1
       /\ LogOf(m, "default") # {}
            <=> \/ ~session.message_callback
                \/ \E j \in LogOf(m, "callback") : mlog[j].ret = 1

(* One call in which the callback handled one message (0) and declined     *)
(* another (1)                                                              *)
C16_Witness ==
  /\ last.op = "execute"
  /\ session.message_callback
  /\ \E i, j \in DOMAIN mlog :
       /\ mlog[i].what = "callback" /\ mlog[i].ret = 0
       /\ LogOf(mlog[i].msg, "default") = {}
       /\ mlog[j].what = "callback" /\ mlog[j].ret = 1
       /\ LogOf(mlog[j].msg, "default") # {}

----------------------------------------------------------------------------
(* C17: when a default reply made by ssh_execute_message_callbacks could    *)
(* not be built or sent (a request of a type that has a default reply, one  *)
(* of its library calls failing), the session is in state Error, and the    *)
(* callback is not called with that message afterwards.                     *)
C17_FailedReplyFatal ==
  \A k \in DOMAIN mlog :
    (mlog[k].what = "default" /\ mlog[k].ret # 0 /\ mlog[k].msg.type # "other")
      => /\ session.session_state = "Error"
         /\ \A j \in LogOf(mlog[k].msg, "callback") : j < k

----------------------------------------------------------------------------
(* The default replies of the call just made that sent a packet, in order,  *)
(* and the packets the call sent                                            *)
RepliesSent ==
  SelectSeq(mlog', LAMBDA d : /\ d.what = "default" /\ d.ret = 0
                              /\ ~(d.msg.type = "channel" /\ ~d.msg.want_reply))
PacketsSent == SubSeq(session'.sent, Len(session.sent) + 1, Len(session'.sent))

(* The place of a bit in the order the claim gives; none of them for the   *)
(* bits it does not name                                                    *)
SlotOfBit(b) ==
  CASE b = "publickey" -> 1 [] b = "interactive" -> 2 [] b = "password" -> 3
    [] b = "hostbased" -> 4 [] OTHER -> 0

(* The method list the reply is to carry for a mask *)
C18_Methods(mask) ==
  LET m == IF mask = {} THEN {"publickey", "password"} ELSE mask
      named == {b \in m : SlotOfBit(b) > 0}
      name(b) == IF b = "interactive" THEN "keyboard-interactive" ELSE b
  IN [k \in 1..Cardinality(named) |->
        name(CHOOSE b \in named :
               Cardinality({c \in named : SlotOfBit(c) < SlotOfBit(b)}) = k - 1)]

(* C18: every default reply to an authentication request that             *)
(* ssh_execute_message_callbacks sends is one packet USERAUTH_FAILURE,      *)
(* the names of the bits set in the session's mask among publickey,         *)
(* keyboard-interactive, password, hostbased in that order (publickey,      *)
(* password for the mask 0), partial = 0; for every mask.                   *)
C18_AuthFailureReply ==
  [][last'.op = "execute" =>
       /\ Len(PacketsSent) = Len(RepliesSent)
       /\ \A k \in DOMAIN RepliesSent :
            RepliesSent[k].msg.type = "auth" =>
              PacketsSent[k] = <<Field("USERAUTH_FAILURE", 51),
                                 Field("methods",
                                       C18_Methods(session.auth_methods)),
                                 Field("partial", 0)>>]_vars

----------------------------------------------------------------------------
(* The call just made had one message to handle, a channel request, and     *)
(* gave it the default reply, which returned ret                            *)
ChannelRequestReplied(want_reply, ret) ==
  /\ last'.op = "execute" /\ last'.len = 1
  /\ \E k \in DOMAIN mlog' :
       /\ mlog'[k].what = "default" /\ mlog'[k].ret = ret
       /\ mlog'[k].msg.type = "channel"
       /\ mlog'[k].msg.want_reply = want_reply

(* C19: the default reply to a channel request with want_reply = false      *)
(* returns success and leaves the session as it was: no packet sent, the    *)
(* output buffer empty, the state unchanged.  With want_reply = true, if    *)
(* none of its library calls fails, it sends exactly one packet,            *)
(* CHANNEL_FAILURE with the channel's remote id.                            *)
C19_ChannelRequestReply ==
  [][/\ ~ChannelRequestReplied(FALSE, -1)
     /\ ChannelRequestReplied(FALSE, 0) =>
          /\ rc' = 0
          /\ session' = session
          /\ session'.out_buffer = <<>>
     /\ ChannelRequestReplied(TRUE, 0) =>
          /\ rc' = 0
          /\ \E k \in DOMAIN mlog' :
               session' = [session EXCEPT !.sent =
                             Append(@, <<Field("CHANNEL_FAILURE", 100),
                                         Field("channel",
                                               mlog'[k].msg.chan)>>)]
          /\ session'.out_buffer = <<>>]_vars

(* A request with want_reply = true was refused with a packet, and then one *)
(* with want_reply = false went through a call that sent nothing            *)
C19_Witness ==
  /\ last.op = "execute" /\ last.len = 1 /\ rc = 0
  /\ \E k \in DOMAIN mlog :
       /\ mlog[k].what = "default" /\ mlog[k].msg.type = "channel"
       /\ ~mlog[k].msg.want_reply
  /\ Len(session.sent) = Len(AuthenticatingSession.sent) + 1
  /\ session.sent[Len(session.sent)][1] = Field("CHANNEL_FAILURE", 100)

----------------------------------------------------------------------------
(* C20: when ssh_handle_key_exchange has returned, it returned success      *)
(* exactly if the session is in state Authenticating, and on an error       *)
(* return the session is in state Error or Disconnected, also when the      *)
(* banner could not be sent or the KEX lists not set up; it never returns   *)
(* with the session in a state that is not final.                           *)
C20_ReturnMatchesState ==
  pc = "returned" =>
    /\ rc = 0 <=> session.session_state = "Authenticating"
    /\ rc # 0 => session.session_state \in {"Error", "Disconnected"}
    /\ session.session_state \in DriverStop

----------------------------------------------------------------------------
(* What the server is to transmit up to Authenticating, in order *)
C21_Order == <<"BANNER", "KEXINIT", "KEXDH_REPLY", "NEWKEYS">>

(* C21: up to Authenticating the transmissions of a server session are a    *)
(* prefix of banner, KEXINIT, KEXDH_REPLY, NEWKEYS, so each is emitted at   *)
(* most once and NEWKEYS only after the reply went out; KEXINIT is emitted  *)
(* only once the peer's banner is stored; the DH sub-state is NewkeysSent   *)
(* only if the reply and NEWKEYS were both emitted.                         *)
C21_EmissionOrder ==
  /\ Len(session.sent) <= Len(C21_Order)
  /\ \A k \in DOMAIN session.sent :
       /\ session.sent[k] # <<>>
       /\ session.sent[k][1].tag = C21_Order[k]
  /\ KexinitEmitted => session.clientbanner # NoBanner
  /\ session.dh_handshake_state = "NewkeysSent"
       => ReplyEmitted /\ NewkeysEmitted

(* The whole sequence was transmitted and the session is Authenticating *)
C21_Witness ==
  /\ session.session_state = "Authenticating"
  /\ Len(session.sent) = Len(C21_Order)
  /\ session.dh_handshake_state = "Finished"

----------------------------------------------------------------------------
(* The messages the call just made handed to the callback or, with none     *)
(* registered, to the default reply, in the order it did                    *)
Handed ==
  SelectSeq(mlog', LAMBDA d : d.what = IF session.message_callback
                                       THEN "callback" ELSE "default")

(* C22: whatever the queue held, whatever the callback returns and however  *)
(* the default replies end, when ssh_execute_message_callbacks returns the  *)
(* queue is empty and every message that was queued (before the call or by  *)
(* its ssh_handle_packets) was handed to the callback or the default reply  *)
(* exactly once, in arrival order.                                          *)
C22_QueueDrained ==
  [][last'.op = "execute" =>
       /\ queue' = <<>>
       /\ Len(Handed) = last'.len
       /\ \A k \in DOMAIN Handed :
            /\ k <= Len(queue) => Handed[k].msg = queue[k]
            /\ \A j \in DOMAIN Handed : j < k => Handed[j].msg.id < Handed[k].msg.id]_vars

----------------------------------------------------------------------------
(* C23: in whatever order the packets come, an SSH_MSG_KEXDH_INIT makes the *)
(* server run the DH reply (dh_handshake_server: y, signature,              *)
(* KEXDH_REPLY) only when the session state is Dh, so not in InitialKex or  *)
(* KexinitReceived, before the algorithms were negotiated.                  *)
C23_DhReplyOnlyInDh ==
  [][(KexdhInitStep /\ last'.fail # "off") => session.session_state = "Dh"]_vars

----------------------------------------------------------------------------
(* The last packet was an SSH_MSG_KEXDH_INIT without e, or one for which a  *)
(* step of dh_handshake_server failed                                       *)
DhReplyFailed ==
  /\ last.op = "kexdh_init"
  /\ last.e = -1 \/ last.fail \notin {"none", "off"}

(* C24: whenever the construction of the DH reply has failed at some step,  *)
(* or an SSH_MSG_KEXDH_INIT carried no e, ssh_handle_key_exchange           *)
(* eventually returns an error: it does not stay in its loop for ever.      *)
C24_DriverReturnsError ==
  [](DhReplyFailed => <>(pc = "returned" /\ rc # 0))

----------------------------------------------------------------------------
(* C25: whatever mask ssh_message_auth_set_methods was given, a default     *)
(* reply to an authentication request has at least one method name in the   *)
(* list it builds (lines 768-779) when it strips the trailing comma, so     *)
(* that the strip of line 782 stays inside the list buffer.                 *)
C25_StripInsideBuffer ==
  [][last'.op = "execute" =>
       \A k \in DOMAIN mlog' :
         (/\ mlog'[k].what = "default" /\ mlog'[k].msg.type = "auth"
          /\ mlog'[k].ret = 0)
           => AuthMethodList(session'.auth_methods) # <<>>]_vars

----------------------------------------------------------------------------
(* C26: after ssh_bind_accept, if its accept() took a connection, the       *)
(* handle is attached to the session and the call succeeded, or else the    *)
(* handle is closed: no error return leaves the connection open without an  *)
(* owner.                                                                   *)
C26_AcceptedHandleOwned ==
  (last.op = "accept" /\ AcceptedFd \in os.open)
    => rc = 0 /\ session.fd = AcceptedFd /\ session.socket_open

----------------------------------------------------------------------------
(* C27: after a ssh_bind_listen that failed the listener holds no socket    *)
(* handle, so that the ssh_bind_accept that follows fails as not bound;     *)
(* and over any sequence of listen, accept and free no handle is closed     *)
(* when it was closed already.                                              *)
C27_ListenFailureClean ==
  /\ (last.op = "listen" /\ last.ret # 0) => sshbind.bindfd = InvalidSocket
  /\ (last.op = "accept" /\ sshbind.bindfd \notin os.open)
       => last.fail = "not_bound"
  /\ os.reclosed = {}

============================================================================
